---- MODULE Spec2Model ----
(***************************************************************************)
(* A model of snek (src/snek.c): the snake, the item board, the per-tick   *)
(* update, the random placement of items and barriers, and the session     *)
(* loop of main, and the length of the frame render builds.  The terminal  *)
(* and the key decoding are outside the state modelled here.               *)
(***************************************************************************)
EXTENDS Integers, Sequences, FiniteSets, TLC

VARIABLES
  pc,          \* where main is: "title", "playing", "gameover", "done";
               \* "crashed" after a render call that overran its buffer;
               \* "add_item" in SpecAddItem, which only calls add_item
  snek,        \* struct snek: segs (head first, tail last) and dir
  gs,          \* struct game_state of the running session
  high_score,  \* main's high_score
  now,         \* what time(NULL) returns
  barrier,     \* history: the try_to_add_barrier call of the last step
  item_call,   \* history: the add_item call of the last step of SpecAddItem
  eaten,       \* history: snacks eaten in this session
  pre_poison,  \* history: gs.speed just before the mushroom that began the
               \* latest poisoned period of this session
  new_high,    \* history: main's new_high_score at the latest game over
  best_final,  \* history: the greatest final score of the sessions finished
  heap,        \* history: the allocations that have not been freed
  ref,         \* history: the snake of the pending-growth description
  reversed,    \* history: the latest direction key since the last tick
               \* turned the snake right round
  frame,       \* history: the bytes the latest render call put in its buffer
  ticks,       \* history: calls of update so far
  turns,       \* history: direction changes so far
  pauses,      \* history: pause toggles so far
  sessions     \* history: sessions started so far

vars == <<pc, snek, gs, high_score, now, barrier, item_call, eaten, pre_poison,
          ticks, turns, pauses, sessions, new_high, best_final, heap, ref, reversed,
          frame>>

----------------------------------------------------------------------------
\* Program constants (src/snek.c).

INIT_SKEN_LEN == 8
EMPTY == 0
SNEK_HEAD == 1
SNEK_BODY == 2
MUSHROOM == 3
SNEK_SNACK == 4
WALL == 5
NORTH == 0
SOUTH == 1
EAST == 2
WEST == 3
MIN_WIN_HEIGHT == 30
MIN_WIN_WIDTH == 100
POISON_DURATION == 5
ITEM_ATTEMPTS == 100
BARRIER_ATTEMPTS == 3
INIT_SPEED == 100000
SPEED_STEP == 1000
SNACK_SCORE == 10
MUSHROOM_SCORE == 75
GROWTH == 3
WALL_SCORE == 500
WALL_INCREMENT == 100
MUSHROOM_SCORE_GATE == 200
INIT_SNACKS == 20
SNACK_REFRESH == 10
SNACK_BATCH == 5
MUSHROOM_REFRESH == 15
MUSHROOM_BATCH == 2
GREEN == 28
PURPLE == 99
BLUE == 33
WHITE == 15
invert == 5         \* strlen("\x1b[47m"), what invert adds to pos
uninvert == 3       \* strlen("\x1b[m"), what uninvert adds to pos

\* uint32_t and useconds_t values are held as the 32-bit integers with the
\* same bits: 0 .. 2^31 - 1 as themselves, 2^31 .. 2^32 - 1 as the value less
\* 2^32.  Addition and subtraction modulo 2^32 are then the integers' own, as
\* long as the result stays within 32 bits; halving and comparing are not.
u32_add(a, b) == a + b
u32_sub(a, b) == a - b
u32_half(a) == IF a >= 0 THEN a \div 2 ELSE ((a \div 2) + 2^30) + 2^30
u32_less(a, b) ==
  IF (a >= 0) = (b >= 0) THEN a < b ELSE a >= 0

----------------------------------------------------------------------------
\* Bounds of the model.

MaxTurns == 1       \* direction changes in a run
MaxPauses == 2      \* pause toggles in a run
MaxSessions == 2    \* sessions in a run
MaxTicks == 16      \* calls of update in a run
PoisonClock == 4    \* clock steps of SpecPoison
LongClock == 3      \* clock steps of SpecLong
MaxGap == 1         \* SpecAddItem draws cells up to this far east of the head
LoopTurns == 3      \* direction changes in a run of SpecTurn
LoopTicks == 6      \* calls of update in a run of SpecTurn
RenderClock == 44   \* clock steps of SpecRender

\* What a specification lets happen: the direction changes, pause toggles,
\* update calls and sessions of a run, the seconds of one clock step, the
\* last clock reading and the kind of cells rand() draws for items.  Under
\* SteerBounds the clock stands still.
SteerBounds ==
  [turns |-> MaxTurns, pauses |-> MaxPauses, ticks |-> MaxTicks,
   sessions |-> MaxSessions, step |-> POISON_DURATION, time |-> 0,
   draws |-> "ahead"]

\* A straight run to the wall, the clock in steps of the poison duration.
PoisonBounds ==
  [turns |-> 0, pauses |-> MaxPauses, ticks |-> MIN_WIN_WIDTH,
   sessions |-> 1, step |-> POISON_DURATION, time |-> POISON_DURATION * PoisonClock,
   draws |-> "ahead"]

\* A straight run to the wall, the clock in steps of the mushroom refresh.
LongBounds ==
  [turns |-> 0, pauses |-> 0, ticks |-> MIN_WIN_WIDTH,
   sessions |-> 1, step |-> MUSHROOM_REFRESH, time |-> MUSHROOM_REFRESH * LongClock,
   draws |-> "ahead"]

----------------------------------------------------------------------------
\* The board: gs->items, one tag per cell, indexed row * MIN_WIN_WIDTH + col.

Idx(p) == p.row * MIN_WIN_WIDTH + p.col

\* The array is held by its non-zero entries: a cell outside the domain is
\* EMPTY (0), as calloc leaves it.
calloc_items == [c \in {} |-> EMPTY]

item_at(items, i) == IF i \in DOMAIN items THEN items[i] ELSE EMPTY

item_set(items, i, tag) ==
  IF tag = EMPTY THEN [c \in DOMAIN items \ {i} |-> items[c]]
  ELSE [c \in DOMAIN items \cup {i} |-> IF c = i THEN tag ELSE items[c]]

\* The cells rand() % (MIN_WIN_HEIGHT - 2) + 1, rand() % (MIN_WIN_WIDTH - 2) + 1 can name.
Interior(p) ==
  /\ p.row >= 1 /\ p.row <= MIN_WIN_HEIGHT - 2
  /\ p.col >= 1 /\ p.col <= MIN_WIN_WIDTH - 2

RandRow(r) == (r % (MIN_WIN_HEIGHT - 2)) + 1
RandCol(r) == (r % (MIN_WIN_WIDTH - 2)) + 1

----------------------------------------------------------------------------
\* The snake.

Pt(r, c) == [row |-> r, col |-> c]

SnekHead(s) == s.segs[1]
SnekTail(s) == s.segs[Len(s.segs)]

\* main's snek before the first session: NULL.
NullSnek == [segs |-> << >>, dir |-> EAST]

snek_init ==
  [segs |-> [k \in 1 .. (INIT_SKEN_LEN + 1) |->
               Pt(MIN_WIN_HEIGHT \div 2, (MIN_WIN_WIDTH \div 2 + 2) - (k - 1))],
   dir |-> EAST]

\* Delta with the rows of NORTH and SOUTH exchanged.
Delta_flipped(dir) ==
  CASE dir = NORTH -> <<1, 0>>
    [] dir = SOUTH -> <<-1, 0>>
    [] dir = EAST -> <<0, 1>>
    [] dir = WEST -> <<0, -1>>
    [] OTHER -> <<0, 0>>

\* update's switch on snek->dir: <<dr, dc>>.
Delta(dir) ==
  CASE dir = NORTH -> <<-1, 0>>
    [] dir = SOUTH -> <<1, 0>>
    [] dir = EAST -> <<0, 1>>
    [] dir = WEST -> <<0, -1>>
    [] OTHER -> <<0, 0>>

\* in_bounds with > for >= in its second test: the last row and the last
\* column pass.
in_bounds_gt(s) ==
  LET h == SnekHead(s) IN
  IF h.row = 0 \/ h.col = 0 THEN FALSE
  ELSE IF h.row > MIN_WIN_HEIGHT - 1 \/ h.col > MIN_WIN_WIDTH - 1 THEN FALSE
  ELSE TRUE

\* in_bounds without the tests of the column.
in_bounds_rows(s) ==
  LET h == SnekHead(s) IN
  IF h.row = 0 THEN FALSE
  ELSE IF h.row >= MIN_WIN_HEIGHT - 1 THEN FALSE
  ELSE TRUE

in_bounds(s) ==
  LET h == SnekHead(s) IN
  IF h.row = 0 \/ h.col = 0 THEN FALSE
  ELSE IF h.row >= MIN_WIN_HEIGHT - 1 \/ h.col >= MIN_WIN_WIDTH - 1 THEN FALSE
  ELSE TRUE

----------------------------------------------------------------------------
\* rand().  An add_item call consumes two values per attempt; its stream of
\* values is given as: the pair `first` on the attempts before the n-th, the
\* pair `rest` from the n-th attempt on.

Draw(st, j) == IF j < st.n THEN st.first ELSE st.rest

\* One attempt of add_item's loop: the cell drawn on attempt j, and whether
\* the two `continue` tests let it through.
item_cell(st, j) == Pt(RandRow(Draw(st, j)[1]), RandCol(Draw(st, j)[2]))

\* item_accepts without the test of the cell's tag.
item_accepts_head_only(items, s, p) ==
  IF p.row = SnekHead(s).row /\ p.col = SnekHead(s).col THEN FALSE
  ELSE TRUE

item_accepts(items, s, p) ==
  IF p.row = SnekHead(s).row /\ p.col = SnekHead(s).col THEN FALSE
  ELSE IF item_at(items, Idx(p)) # EMPTY THEN FALSE
  ELSE TRUE

\* add_item: the loop runs attempts 0, 1, ... and returns at the first one
\* let through, or ends after ITEM_ATTEMPTS of them.  The draws, and so the
\* tests, are the same on the attempts before st.n and the same from st.n on:
\* the first attempt let through is attempt 0 or attempt st.n.  The result is
\* the board and the number of attempts made.
add_item(items, s, item, st) ==
  LET ok == {j \in {0, st.n} :
               j < ITEM_ATTEMPTS /\ item_accepts(items, s, item_cell(st, j))}
  IN IF ok = {} THEN [items |-> items, attempts |-> ITEM_ATTEMPTS]
     ELSE LET j == CHOOSE x \in ok : \A y \in ok : x <= y
          IN [items |-> item_set(items, Idx(item_cell(st, j)), item),
              attempts |-> j + 1]

\* barrier_valid that looks at the head only.
barrier_valid_head_only(s, walls) ==
  \A w \in 1 .. 3 : walls[w] # Idx(SnekHead(s))

\* try_to_add_barrier's walk over the snake: no cell of the shape is a segment's.
barrier_valid(s, walls) ==
  \A k \in 1 .. Len(s.segs) : \A w \in 1 .. 3 : walls[w] # Idx(s.segs[k])

\* try_to_add_barrier: draws is the sequence of <<rand(), rand(), rand()>> its
\* attempts consume.  The result is the board, whether a barrier was drawn,
\* and the three cells of the last shape tried.
RECURSIVE barrier_from(_, _, _, _)
barrier_from(j, s, items, draws) ==
  IF j >= BARRIER_ATTEMPTS
    THEN [items |-> items, placed |-> FALSE, walls |-> << >>, attempts |-> j]
  ELSE
    LET row == RandRow(draws[j + 1][1])
        col == RandCol(draws[j + 1][2])
        i == row * MIN_WIN_WIDTH + col
        shape == draws[j + 1][3] % 2
        walls == IF shape = 0 THEN <<i - 1, i, i + 1>>
                 ELSE <<i - MIN_WIN_WIDTH, i, i + MIN_WIN_WIDTH>>
    IN IF barrier_valid(s, walls)
         THEN [items |-> item_set(item_set(item_set(items, walls[1], WALL),
                                                walls[2], WALL), walls[3], WALL),
               placed |-> TRUE, walls |-> walls, attempts |-> j + 1]
       ELSE barrier_from(j + 1, s, items, draws)

try_to_add_barrier(s, items, draws) == barrier_from(0, s, items, draws)

\* What a step records of its try_to_add_barrier call: whether it was called,
\* whether it drew a barrier, the cells drawn and their tags before the draw.
NoBarrier == [called |-> FALSE, placed |-> FALSE, walls |-> << >>, before |-> << >>]

BarrierRecord(items, b) ==
  [called |-> TRUE, placed |-> b.placed, walls |-> b.walls,
   before |-> [w \in 1 .. Len(b.walls) |-> item_at(items, b.walls[w])]]

----------------------------------------------------------------------------
\* update (lines 548-633), in the order of the code.

\* The poison check at the top of update.
poison_expiry(g, t) ==
  IF g.poisoned /\ t - g.poisoned_time >= POISON_DURATION
    THEN [g EXCEPT !.poisoned = FALSE, !.speed = g.saved_speed, !.saved_speed = 0]
  ELSE g

\* The new head is linked in front and the tail segment is freed.
advance(s) ==
  LET d == Delta(s.dir)
      n == Pt(u32_add(SnekHead(s).row, d[1]), u32_add(SnekHead(s).col, d[2]))
  IN [s EXCEPT !.segs = <<n>> \o SubSeq(s.segs, 1, Len(s.segs) - 1)]

\* grow with a loop of two rounds.
grow_two(s) ==
  [s EXCEPT !.segs = s.segs \o [k \in 1 .. (GROWTH - 1) |-> SnekTail(s)]]

\* grow that adds nothing behind a tail that already has a segment on it.
grow_no_stack(s) ==
  IF Len(s.segs) >= 2 /\ s.segs[Len(s.segs) - 1] = SnekTail(s) THEN s
  ELSE [s EXCEPT !.segs = s.segs \o [k \in 1 .. GROWTH |-> SnekTail(s)]]

\* Three new segments at the tail's position, each linked behind the tail.
grow(s) ==
  [s EXCEPT !.segs = s.segs \o [k \in 1 .. GROWTH |-> SnekTail(s)]]

\* The loop over snek->head->prev ...: the head is on another segment.
hits_body(s) ==
  \E k \in 2 .. Len(s.segs) : s.segs[k] = SnekHead(s)

\* wants_barrier without the test of the checkpoint.
wants_barrier_any_tick(g) ==
  ~u32_less(g.score, WALL_SCORE)

\* "should we try to add a barrier?"
wants_barrier(g) ==
  ~u32_less(g.score, WALL_SCORE)
  /\ ~u32_less(u32_sub(g.score, g.last_wall_attempt), WALL_INCREMENT)

\* eat_snack without gs->items[i] = EMPTY.
eat_snack_keeps_cell(g, i) ==
  [g EXCEPT !.score = u32_add(g.score, SNACK_SCORE),
            !.speed = u32_sub(g.speed, SPEED_STEP)]

\* The SNEK_SNACK branch's effect on the game state (lines 587-589).
eat_snack(g, i) ==
  [g EXCEPT !.score = u32_add(g.score, SNACK_SCORE),
            !.speed = u32_sub(g.speed, SPEED_STEP),
            !.items = item_set(g.items, i, EMPTY)]

\* eat_mushroom without the test of saved_speed: every mushroom saves the speed.
eat_mushroom_resaves(g, i, t) ==
  [g EXCEPT !.score = u32_add(g.score, MUSHROOM_SCORE),
            !.saved_speed = g.speed,
            !.speed = u32_half(g.speed),
            !.items = item_set(g.items, i, EMPTY),
            !.poisoned = TRUE,
            !.poisoned_time = t]

\* The MUSHROOM branch (lines 603-610).
eat_mushroom(g, i, t) ==
  [g EXCEPT !.score = u32_add(g.score, MUSHROOM_SCORE),
            !.saved_speed = IF g.saved_speed = 0 THEN g.speed ELSE g.saved_speed,
            !.speed = u32_half(g.speed),
            !.items = item_set(g.items, i, EMPTY),
            !.poisoned = TRUE,
            !.poisoned_time = t]

\* update up to and including the self-collision check (lines 550-624); tag
\* is what the board held under the new head.
update_move(s, g, t) ==
  LET g1 == poison_expiry(g, t)
      s1 == advance(s)
      i == Idx(SnekHead(s1))
      tag == item_at(g1.items, i)
  IN IF tag = SNEK_SNACK THEN
       [snek |-> grow(s1), gs |-> eat_snack(g1, i), game_over |-> hits_body(grow(s1)),
        tag |-> tag]
     ELSE IF tag = MUSHROOM THEN
       [snek |-> s1, gs |-> eat_mushroom(g1, i, t), game_over |-> hits_body(s1),
        tag |-> tag]
     ELSE IF tag = WALL THEN
       [snek |-> s1, gs |-> g1, game_over |-> TRUE, tag |-> tag]
     ELSE
       [snek |-> s1, gs |-> g1, game_over |-> hits_body(s1), tag |-> tag]

\* The whole of update: draws are the rand() values of its barrier attempt.
update(s, g, t, draws) ==
  LET m == update_move(s, g, t)
  IN IF ~m.game_over /\ wants_barrier(m.gs) THEN
       LET b == try_to_add_barrier(m.snek, m.gs.items, draws)
       IN [snek |-> m.snek,
           gs |-> [m.gs EXCEPT !.items = b.items, !.last_wall_attempt = m.gs.score],
           game_over |-> FALSE, tag |-> m.tag,
           barrier |-> BarrierRecord(m.gs.items, b)]
     ELSE [snek |-> m.snek, gs |-> m.gs, game_over |-> m.game_over, tag |-> m.tag,
           barrier |-> NoBarrier]


----------------------------------------------------------------------------
\* The rand() values the model draws.  The cells they name lie where the
\* snake meets them: ahead of the head, under the head, on the body.

\* The rand() values of a run are of one of two kinds: "ahead", cells on the
\* snake's way, and "far", cells in the rows well above the snake.

\* A rand() value that names the row or the column, one lap up.
RawRow(row) == (row - 1) + (MIN_WIN_HEIGHT - 2)
RawCol(col) == (col - 1) + (MIN_WIN_WIDTH - 2)
Raw(p) == <<RawRow(p.row), RawCol(p.col)>>

\* The cell k steps ahead of the head, and the number of interior cells ahead.
Ahead(s, k) ==
  Pt(SnekHead(s).row + k * Delta(s.dir)[1], SnekHead(s).col + k * Delta(s.dir)[2])

Reach(s) ==
  IF ~Interior(SnekHead(s)) THEN 0
  ELSE IF s.dir = NORTH THEN SnekHead(s).row - 1
  ELSE IF s.dir = SOUTH THEN (MIN_WIN_HEIGHT - 2) - SnekHead(s).row
  ELSE IF s.dir = EAST THEN (MIN_WIN_WIDTH - 2) - SnekHead(s).col
  ELSE SnekHead(s).col - 1

\* The distances ahead at which the board holds an item.
TakenAhead(items, s) ==
  LET h == Idx(SnekHead(s))
      step == Delta(s.dir)[1] * MIN_WIN_WIDTH + Delta(s.dir)[2]
      reach == Reach(s)
  IN {k \in {(c - h) \div step : c \in DOMAIN items} :
        k >= 1 /\ k <= reach /\ (h + k * step) \in DOMAIN items}

\* The nearest interior cell ahead that holds an item, and the nearest that
\* holds none (as sets: empty when there is no such cell).
NearestTaken(items, s) ==
  LET ks == TakenAhead(items, s)
  IN IF ks = {} THEN {} ELSE {Ahead(s, CHOOSE k \in ks : \A m \in ks : k <= m)}

NearestFree(items, s) ==
  LET taken == TakenAhead(items, s)
      ks == {k \in {1} \cup {t + 1 : t \in taken} : k <= Reach(s) /\ k \notin taken}
  IN IF ks = {} THEN {} ELSE {Ahead(s, CHOOSE k \in ks : \A m \in ks : k <= m)}

\* Streams for one add_item call of a session: up to one draw of a cell
\* add_item rejects (the head's, or the nearest taken cell ahead), then draws
\* of the nearest free cell ahead; with no free cell ahead, of the head's cell.
ItemStreams(items, s) ==
  {[first |-> Raw(a), n |-> k, rest |-> Raw(b)] :
     a \in {SnekHead(s)} \cup NearestTaken(items, s),
     k \in {0, 1},
     b \in IF NearestFree(items, s) = {} THEN {SnekHead(s)} ELSE NearestFree(items, s)}

\* The k-th cell of the interior, row by row from its first corner.
FarPt(k) == Pt(1 + (k \div (MIN_WIN_WIDTH - 2)), 1 + (k % (MIN_WIN_WIDTH - 2)))

\* The stream that draws, on every attempt, the cell after the items already
\* lying three rows or more above the head.
FarStreams(items, s) ==
  LET k == Cardinality({c \in DOMAIN items :
                          c < Idx(Pt(SnekHead(s).row - 2, 0))})
  IN {[first |-> Raw(FarPt(k)), n |-> 0, rest |-> Raw(FarPt(k))]}

Streams(src, items, s) ==
  IF src = "far" THEN FarStreams(items, s) ELSE ItemStreams(items, s)

\* Streams for one try_to_add_barrier call: some attempts centred on the
\* snake's second segment, the others two cells ahead of the head, in
\* either shape.
BarrierStreams(s) ==
  LET on_snek == <<RawRow(s.segs[2].row), RawCol(s.segs[2].col), 1>>
      ahead == IF Interior(Ahead(s, 2))
                 THEN {<<RawRow(Ahead(s, 2).row), RawCol(Ahead(s, 2).col), sh>> : sh \in {0, 1}}
               ELSE {on_snek}
  IN {[j \in 1 .. BARRIER_ATTEMPTS |-> IF j <= k THEN on_snek ELSE d] :
        k \in {0, 1, BARRIER_ATTEMPTS}, d \in ahead}

----------------------------------------------------------------------------
\* add_snacks and add_mushrooms: count calls of add_item.  The result is the
\* set of boards the calls can leave, over the streams drawn.

RECURSIVE add_items(_, _, _, _, _)
add_items(boards, s, item, count, src) ==
  IF count <= 0 THEN boards
  ELSE add_items({add_item(b, s, item, st).items :
                    <<b, st>> \in UNION {{<<bb, x>> : x \in Streams(src, bb, s)} : bb \in boards}},
                 s, item, count - 1, src)

add_snacks(items, s, count, src) == add_items({items}, s, SNEK_SNACK, count, src)
add_mushrooms(items, s, count, src) == add_items({items}, s, MUSHROOM, count, src)

----------------------------------------------------------------------------
\* main.

\* struct game_state gs = { .score = 0, ... } (lines 667-669); the members
\* not named are zero.
new_game_state ==
  [score |-> 0, items |-> calloc_items, speed |-> INIT_SPEED, saved_speed |-> 0,
   paused |-> FALSE, snacks_refreshed |-> 0, mushrooms_refreshed |-> 0,
   poisoned |-> FALSE, poisoned_time |-> 0, last_wall_attempt |-> 0]

----------------------------------------------------------------------------
\* render: the bytes it puts in buffer, the value of pos at its write call.

FRAME_CAPACITY == MIN_WIN_HEIGHT * MIN_WIN_WIDTH * 2

\* The length of what sprintf's %d makes of a 32-bit value.
RECURSIVE DecLen(_)
DecLen(n) ==
  IF n < -2147483647 THEN 11
  ELSE IF n < 0 THEN 1 + DecLen(-n)
  ELSE IF n < 10 THEN 1
  ELSE 1 + DecLen(n \div 10)

\* fg_colour: strlen of "\x1b[38;5;%dm".
fg_colour(colour) == 7 + DecLen(colour) + 1

\* The messages of the title screen and of a game over: row, strlen(msg)
\* and colour of each.
title_messages ==
  << [row |-> MIN_WIN_HEIGHT \div 3, len |-> 17, colour |-> WHITE],
     [row |-> MIN_WIN_HEIGHT \div 3 + 2, len |-> 22, colour |-> WHITE],
     [row |-> MIN_WIN_HEIGHT \div 3 + 3, len |-> 29, colour |-> WHITE],
     [row |-> MIN_WIN_HEIGHT \div 3 + 5, len |-> 23, colour |-> WHITE] >>

game_over_messages(new_high_score) ==
  IF new_high_score
    THEN << [row |-> MIN_WIN_HEIGHT \div 3, len |-> 21, colour |-> PURPLE],
            [row |-> MIN_WIN_HEIGHT \div 3 + 2, len |-> 18, colour |-> BLUE],
            [row |-> MIN_WIN_HEIGHT \div 3 + 4, len |-> 38, colour |-> WHITE] >>
  ELSE << [row |-> MIN_WIN_HEIGHT \div 3, len |-> 21, colour |-> PURPLE],
          [row |-> MIN_WIN_HEIGHT \div 3 + 2, len |-> 38, colour |-> WHITE] >>

\* The message of row r: the last of the messages with that row (0: none).
message_of(messages, r) ==
  LET js == {j \in 1 .. Len(messages) : messages[j].row = r}
  IN IF js = {} THEN 0 ELSE CHOOSE j \in js : \A k \in js : k <= j

msg_col(m) == ((MIN_WIN_WIDTH - 2) - m.len) \div 2

\* Cell (r, c) of the interior shows a character of a message.
message_cell(messages, r, c) ==
  LET j == message_of(messages, r)
  IN j # 0 /\ c >= msg_col(messages[j]) /\ c < msg_col(messages[j]) + messages[j].len

\* The cells of the interior that show a character of message j.
message_cells(messages, j) ==
  LET m == messages[j]
  IN IF m.row >= 1 /\ m.row <= MIN_WIN_HEIGHT - 2 /\ message_of(messages, m.row) = j
       THEN Cardinality({c \in 1 .. MIN_WIN_WIDTH - 2 :
                           c >= msg_col(m) /\ c < msg_col(m) + m.len})
     ELSE 0

\* The cells that show messages 1 .. j, and their bytes: the colour and one
\* character each.
RECURSIVE message_count(_, _)
message_count(messages, j) ==
  IF j = 0 THEN 0
  ELSE message_cells(messages, j) + message_count(messages, j - 1)

RECURSIVE message_bytes(_, _)
message_bytes(messages, j) ==
  IF j = 0 THEN 0
  ELSE message_cells(messages, j) * (fg_colour(messages[j].colour) + 1)
         + message_bytes(messages, j - 1)

\* The table of render: the board's tags, the head's cell SNEK_HEAD, then
\* every other segment's cell SNEK_BODY.
table(s, g) ==
  LET body == {Idx(s.segs[k]) : k \in 2 .. Len(s.segs)}
      head == {Idx(s.segs[k]) : k \in 1 .. (IF Len(s.segs) > 0 THEN 1 ELSE 0)}
  IN [c \in DOMAIN g.items \cup head \cup body |->
        IF c \in body THEN SNEK_BODY
        ELSE IF c \in head THEN SNEK_HEAD
        ELSE g.items[c]]

\* The switch on table[i]: the bytes of one cell.
cell_bytes(tag, snek_colour) ==
  CASE tag = EMPTY -> 1
    [] tag = SNEK_BODY -> fg_colour(snek_colour) + 1
    [] tag = SNEK_HEAD -> fg_colour(snek_colour) + 1
    [] tag = SNEK_SNACK -> fg_colour(BLUE) + 1
    [] tag = WALL -> invert + 1 + uninvert
    [] tag = MUSHROOM -> fg_colour(PURPLE) + 3
    [] OTHER -> 0

\* pos at the write call: the top bar, rows 1 .. MIN_WIN_HEIGHT - 2 with
\* their side bars, cells and line ends, and the bottom bar.  The cells are
\* counted by tag; those no tag and no message claims are EMPTY.
render(s, g, messages, high) ==
  LET snek_colour == IF g.poisoned THEN PURPLE ELSE GREEN
      tbl == table(s, g)
      score_len == 9 + DecLen(g.score)
      high_score_len == 14 + DecLen(high)
      padding == (MIN_WIN_WIDTH - high_score_len - 5) - (score_len + 5)
      top == invert + 5 + uninvert + score_len + invert + padding + uninvert
               + high_score_len + invert + 5 + uninvert + 2
      sides == (invert + 1 + uninvert) + (invert + 1 + uninvert) + 2
      drawn == {c \in DOMAIN tbl :
                  /\ Interior(Pt(c \div MIN_WIN_WIDTH, c % MIN_WIN_WIDTH))
                  /\ ~message_cell(messages, c \div MIN_WIN_WIDTH, c % MIN_WIN_WIDTH)}
      of_tag(tag) == Cardinality({c \in drawn : tbl[c] = tag}) * cell_bytes(tag, snek_colour)
      chars == message_bytes(messages, Len(messages))
      empties == (MIN_WIN_HEIGHT - 2) * (MIN_WIN_WIDTH - 2) - Cardinality(drawn)
                   - message_count(messages, Len(messages))
      bottom == invert + MIN_WIN_WIDTH + uninvert + 2
  IN top + (MIN_WIN_HEIGHT - 2) * sides
       + empties * cell_bytes(EMPTY, snek_colour)
       + of_tag(SNEK_HEAD) + of_tag(SNEK_BODY) + of_tag(MUSHROOM)
       + of_tag(SNEK_SNACK) + of_tag(WALL)
       + chars + bottom

\* The buffer is an array of FRAME_CAPACITY bytes on render's stack: a frame
\* longer than that is written past its end, and what main does after such a
\* call is not defined.  It may carry on, or stop.
after_render(at, bytes) ==
  IF bytes > FRAME_CAPACITY THEN {at, "crashed"} ELSE {at}

NoItemCall == [called |-> FALSE, item |-> EMPTY, attempts |-> 0]

\* The direction right round from dir.
Opposite(dir) ==
  CASE dir = NORTH -> SOUTH
    [] dir = SOUTH -> NORTH
    [] dir = EAST -> WEST
    [] dir = WEST -> EAST
    [] OTHER -> dir

\* The snake of the description with pending growth, kept beside the code's:
\* its segments and the advances still to be made without removing the tail.
NoRef == [segs |-> << >>, pending |-> 0]
ref_init == [segs |-> snek_init.segs, pending |-> 0]

\* advance(direction): a new head at head + delta; the tail is removed unless
\* growth is pending.
ref_advance(r, dir) ==
  LET d == Delta(dir)
      n == Pt(r.segs[1].row + d[1], r.segs[1].col + d[2])
  IN IF r.pending > 0
       THEN [segs |-> <<n>> \o r.segs, pending |-> r.pending - 1]
     ELSE [segs |-> <<n>> \o SubSeq(r.segs, 1, Len(r.segs) - 1), pending |-> 0]

\* grow(n): n more advances keep the tail.
ref_grow(r, n) == [r EXCEPT !.pending = r.pending + n]

\* A tick of the description: advance, then grow(3) over a snack.
ref_update(r, dir, items) ==
  LET a == ref_advance(r, dir)
  IN IF item_at(items, Idx(a.segs[1])) = SNEK_SNACK THEN ref_grow(a, GROWTH) ELSE a

\* malloc, calloc and free: the counts of live struct pt, struct snek and
\* item arrays.
NoHeap == [pts |-> 0, sneks |-> 0, items |-> 0]

\* free(snek); snek = snek_init(); free(gs.items); gs.items = calloc(...)
\* (lines 670-673): free(snek) frees the struct snek of the session before,
\* if there was one, and gs.items is NULL when it is freed.
heap_new_session(h, s) ==
  [pts |-> h.pts + Len(snek_init.segs),
   sneks |-> (IF s = NullSnek THEN h.sneks ELSE h.sneks - 1) + 1,
   items |-> h.items + 1]

\* update: one struct pt for the new head, the tail's freed, three for a snack.
heap_update(h, tag) ==
  [h EXCEPT !.pts = (h.pts + 1) - 1 + (IF tag = SNEK_SNACK THEN GROWTH ELSE 0)]

\* free(gs.items); free(snek); on q after a game (lines 754-755).
heap_quit(h) == [h EXCEPT !.items = h.items - 1, !.sneks = h.sneks - 1]

\* The head of the do loop (lines 667-680): a new session.
NewSession(B) ==
  /\ sessions < B.sessions
  /\ \E b \in add_snacks(calloc_items, snek_init, INIT_SNACKS, B.draws) :
       \E draws \in BarrierStreams(snek_init) :
         LET w == try_to_add_barrier(snek_init, b, draws)
         IN /\ snek' = snek_init
            /\ gs' = [new_game_state EXCEPT !.items = w.items,
                                            !.snacks_refreshed = now,
                                            !.mushrooms_refreshed = now]
            /\ barrier' = BarrierRecord(b, w)
  /\ pc' = "playing"
  /\ eaten' = 0
  /\ pre_poison' = 0
  /\ sessions' = sessions + 1
  /\ heap' = heap_new_session(heap, snek)
  /\ ref' = ref_init
  /\ reversed' = FALSE
  /\ UNCHANGED <<high_score, now, item_call, ticks, turns, pauses, new_high,
                 best_final, frame>>

Keys == {"w", "a", "s", "d", " ", "q", ""}

\* title_screen's loop (lines 204-212): q exits, space begins.
TitleScreen(c, B) ==
  /\ pc = "title"
  /\ IF c = "q"
       THEN /\ pc' = "done"
            /\ UNCHANGED <<snek, gs, high_score, now, barrier, item_call, eaten,
                           pre_poison, ticks, turns, pauses, sessions, new_high,
                           best_final, heap, ref, reversed, frame>>
     ELSE IF c = " " THEN NewSession(B)
     ELSE UNCHANGED vars

key_dir(c, dir) ==
  IF c = "w" THEN NORTH
  ELSE IF c = "a" THEN WEST
  ELSE IF c = "s" THEN SOUTH
  ELSE IF c = "d" THEN EAST
  ELSE dir

key_paused(c, paused) == IF c = " " THEN ~paused ELSE paused

\* The snack and mushroom refresh of the main loop (lines 734-742).
refresh_snacks(s, g, t, src) ==
  IF t - g.snacks_refreshed >= SNACK_REFRESH
    THEN {[g EXCEPT !.items = b, !.snacks_refreshed = t] :
            b \in add_snacks(g.items, s, SNACK_BATCH, src)}
  ELSE {g}

\* refresh_mushrooms without the test of the score.
refresh_mushrooms_any_score(s, g, t, src) ==
  IF t - g.mushrooms_refreshed >= MUSHROOM_REFRESH
    THEN {[g EXCEPT !.items = b, !.mushrooms_refreshed = t] :
            b \in add_mushrooms(g.items, s, MUSHROOM_BATCH, src)}
  ELSE {g}

refresh_mushrooms(s, g, t, src) ==
  IF u32_less(MUSHROOM_SCORE_GATE, g.score) /\ t - g.mushrooms_refreshed >= MUSHROOM_REFRESH
    THEN {[g EXCEPT !.items = b, !.mushrooms_refreshed = t] :
            b \in add_mushrooms(g.items, s, MUSHROOM_BATCH, src)}
  ELSE {g}

\* The rand() values an update call can consume.
UpdateDraws(s, g, t) ==
  LET m == update_move(s, g, t)
  IN IF ~m.game_over /\ wants_barrier(m.gs) THEN BarrierStreams(m.snek) ELSE {<< >>}

\* new_high_score without the comparison: the last final score is the high score.
new_high_score_last(g, high) == g.score

\* if (gs.score > high_score) ... (lines 703-707)
new_high_score(g, high) == IF u32_less(high, g.score) THEN g.score ELSE high

\* One iteration of the main game loop (lines 684-747) on key c.
GameLoop(c, B) ==
  /\ pc = "playing"
  /\ LET s1 == [snek EXCEPT !.dir = key_dir(c, snek.dir)]
         g1 == [gs EXCEPT !.paused = key_paused(c, gs.paused)]
     IN /\ s1.dir # snek.dir => turns < B.turns
        /\ c = " " => pauses < B.pauses
        /\ ~g1.paused => ticks < B.ticks
        /\ turns' = IF s1.dir # snek.dir THEN turns + 1 ELSE turns
        /\ pauses' = IF c = " " THEN pauses + 1 ELSE pauses
        /\ IF g1.paused
             THEN /\ snek' = s1
                  /\ gs' = g1
                  /\ barrier' = NoBarrier
                  /\ reversed' = IF s1.dir = snek.dir THEN reversed
                                  ELSE s1.dir = Opposite(snek.dir)
                  /\ UNCHANGED <<pc, high_score, eaten, pre_poison, ticks, new_high,
                                 best_final, heap, ref, frame>>
           ELSE \E draws \in UpdateDraws(s1, g1, now) :
                  LET u == update(s1, g1, now, draws)
                  IN /\ snek' = u.snek
                     /\ barrier' = u.barrier
                     /\ eaten' = IF u.tag = SNEK_SNACK THEN eaten + 1 ELSE eaten
                     /\ pre_poison' =
                          IF u.tag = MUSHROOM /\ ~poison_expiry(g1, now).poisoned
                            THEN poison_expiry(g1, now).speed
                          ELSE pre_poison
                     /\ ticks' = ticks + 1
                     /\ heap' = heap_update(heap, u.tag)
                     /\ ref' = ref_update(ref, s1.dir, g1.items)
                     /\ reversed' = FALSE
                     /\ IF u.game_over \/ ~in_bounds(u.snek)
                          THEN /\ gs' = u.gs
                               /\ high_score' = new_high_score(u.gs, high_score)
                               /\ new_high' = u32_less(high_score, u.gs.score)
                               /\ best_final' = IF u.gs.score > best_final
                                                  THEN u.gs.score ELSE best_final
                               /\ frame' = render(u.snek, u.gs,
                                                  game_over_messages(new_high'),
                                                  high_score')
                               /\ pc' \in after_render("gameover", frame')
                        ELSE /\ \E g2 \in refresh_snacks(u.snek, u.gs, now, B.draws) :
                                  gs' \in refresh_mushrooms(u.snek, g2, now, B.draws)
                             /\ frame' = render(u.snek, gs', << >>, high_score)
                             /\ pc' \in after_render(pc, frame')
                             /\ UNCHANGED <<high_score, new_high, best_final>>
  /\ UNCHANGED <<now, item_call, sessions>>

\* GameOverScreen whose loop moves the snake on while it waits for a key.
GameOverScreenMoves(c, B) ==
  /\ pc = "gameover"
  /\ IF c = "q"
       THEN /\ pc' = "done"
            /\ heap' = heap_quit(heap)
            /\ UNCHANGED <<snek, gs, high_score, now, barrier, item_call, eaten,
                           pre_poison, ticks, turns, pauses, sessions, new_high,
                           best_final, ref, reversed, frame>>
     ELSE IF c = " " THEN NewSession(B)
     ELSE /\ snek' = advance(snek)
          /\ UNCHANGED <<pc, gs, high_score, now, barrier, item_call, eaten,
                         pre_poison, ticks, turns, pauses, sessions, new_high,
                         best_final, heap, ref, reversed, frame>>

\* The loop after a game (lines 750-762): q quits, space plays again.
GameOverScreen(c, B) ==
  /\ pc = "gameover"
  /\ IF c = "q"
       THEN /\ pc' = "done"
            /\ heap' = heap_quit(heap)
            /\ UNCHANGED <<snek, gs, high_score, now, barrier, item_call, eaten,
                           pre_poison, ticks, turns, pauses, sessions, new_high,
                           best_final, ref, reversed, frame>>
     ELSE IF c = " " THEN NewSession(B)
     ELSE UNCHANGED vars

\* time(NULL) is the wall clock: between two iterations of the game loop it
\* can have moved on by any amount (the sleep, a pause the player takes, a
\* stopped process).  The model moves it in steps of B.step seconds; in a
\* run with "far" draws it moves on once the snack refresh has caught up.
Clock(B) ==
  /\ pc = "playing"
  /\ now + B.step <= B.time
  /\ B.draws = "far" => now - gs.snacks_refreshed < SNACK_REFRESH
  /\ now' = now + B.step
  /\ UNCHANGED <<pc, snek, gs, high_score, barrier, item_call, eaten, pre_poison,
                 ticks, turns, pauses, sessions, new_high, best_final, heap, ref,
                 reversed, frame>>

Init ==
  /\ pc = "title"
  /\ snek = NullSnek
  /\ gs = new_game_state
  /\ high_score = 0
  /\ now = 0
  /\ barrier = NoBarrier
  /\ item_call = NoItemCall
  /\ eaten = 0
  /\ pre_poison = 0
  /\ new_high = FALSE
  /\ best_final = 0
  /\ heap = NoHeap
  /\ ref = NoRef
  /\ reversed = FALSE
  /\ frame = render(NullSnek, new_game_state, title_messages, 0)
  /\ ticks = 0
  /\ turns = 0
  /\ pauses = 0
  /\ sessions = 0

\* What main does on a key.
Play(B) ==
  \/ \E c \in Keys : TitleScreen(c, B)
  \/ \E c \in Keys : GameLoop(c, B)
  \/ \E c \in Keys : GameOverScreen(c, B)

Step(B) == Play(B) \/ Clock(B)

\* Sessions under steering: turns, pauses, restarts, all within one second.
Next == Play(SteerBounds)
Spec == Init /\ [][Next]_vars

\* One session run straight to the wall, the clock in steps of 5 seconds.
NextPoison == Step(PoisonBounds)
SpecPoison == Init /\ [][NextPoison]_vars

\* One short session with the turns of a loop back onto the body.
TurnBounds ==
  [turns |-> LoopTurns, pauses |-> MaxPauses, ticks |-> LoopTicks,
   sessions |-> 1, step |-> POISON_DURATION, time |-> 0, draws |-> "ahead"]

\* One short session steered freely: loops, turns made while paused.
NextTurn == Play(TurnBounds)
SpecTurn == Init /\ [][NextTurn]_vars

\* One session run straight to the wall past snacks that all lie far from
\* it, the clock in steps of the snack refresh, each awaited by the clock.
RenderBounds ==
  [turns |-> 0, pauses |-> 0, ticks |-> MIN_WIN_WIDTH,
   sessions |-> 1, step |-> SNACK_REFRESH, time |-> SNACK_REFRESH * RenderClock,
   draws |-> "far"]

NextRender == Step(RenderBounds)
SpecRender == Init /\ [][NextRender]_vars

\* One session run straight to the wall, the clock in steps of 15 seconds.
NextLong == Step(LongBounds)
SpecLong == Init /\ [][NextLong]_vars

----------------------------------------------------------------------------
\* add_item on its own: the calls of add_item from the board calloc has just
\* returned (line 673) on, for either item, with streams that draw the head's
\* cell, a body cell, the cells east of the head and the corners of the
\* interior.  The first session has begun: its snake, its struct snek and
\* its board are allocated, and no frame but the title's has been built.

AddItemCells ==
  {Ahead(snek_init, k) : k \in -1 .. MaxGap}
    \cup {Pt(1, 1), Pt(MIN_WIN_HEIGHT - 2, MIN_WIN_WIDTH - 2)}

\* rand() values that name the cell: on the first lap and one lap up.
AddItemRaws == {<<p.row - 1, p.col - 1>> : p \in AddItemCells} \cup {Raw(p) : p \in AddItemCells}

AddItemStreams ==
  {[first |-> a, n |-> k, rest |-> b] :
     a \in AddItemRaws, k \in {0, 1, ITEM_ATTEMPTS - 1, ITEM_ATTEMPTS},
     b \in {Raw(p) : p \in AddItemCells}}

InitAddItem ==
  /\ pc = "add_item"
  /\ snek = snek_init
  /\ gs = new_game_state
  /\ high_score = 0
  /\ now = 0
  /\ barrier = NoBarrier
  /\ item_call = NoItemCall
  /\ eaten = 0
  /\ pre_poison = 0
  /\ new_high = FALSE
  /\ best_final = 0
  /\ heap = heap_new_session(NoHeap, NullSnek)
  /\ ref = ref_init
  /\ reversed = FALSE
  /\ frame = render(NullSnek, new_game_state, title_messages, 0)
  /\ ticks = 0
  /\ turns = 0
  /\ pauses = 0
  /\ sessions = 1

AddItemCall ==
  /\ pc = "add_item"
  /\ \E item \in {SNEK_SNACK, MUSHROOM} : \E st \in AddItemStreams :
       LET r == add_item(gs.items, snek, item, st)
       IN /\ gs' = [gs EXCEPT !.items = r.items]
          /\ item_call' = [called |-> TRUE, item |-> item, attempts |-> r.attempts]
  /\ UNCHANGED <<pc, snek, high_score, now, barrier, eaten, pre_poison, ticks,
                 turns, pauses, sessions, new_high, best_final, heap, ref, reversed,
                 frame>>

NextAddItem == AddItemCall
SpecAddItem == InitAddItem /\ [][NextAddItem]_vars

----------------------------------------------------------------------------
\* Properties.

\* A step that is a call of update: a non-paused iteration of the game loop.
Tick == pc = "playing" /\ ticks' = ticks + 1

\* The cells of the board that differ between two boards.
Changed(a, b) == {c \in DOMAIN a \cup DOMAIN b : item_at(a, c) # item_at(b, c)}

\* The cells the snake's segments lie on.
SnekCells(s) == {Idx(s.segs[k]) : k \in 1 .. Len(s.segs)}

\* C1: a non-paused tick ends the session if and only if the new head, after
\* the advance and the trim of the tail, is on a WALL cell of the board, or on
\* the position of another segment, or outside rows 1..HEIGHT-2 and columns
\* 1..WIDTH-2; otherwise the session goes on playing.
C1_GameOverIff ==
  [][Tick =>
       LET h == SnekHead(snek')
       IN /\ pc' \in {"playing", "gameover"}
          /\ pc' = "gameover" <=>
               \/ item_at(gs.items, Idx(h)) = WALL
               \/ \E k \in 2 .. Len(snek'.segs) : snek'.segs[k] = h
               \/ ~Interior(h)]_vars

\* A session has ended with the head on a WALL cell.
C1_Witness ==
  /\ pc = "gameover"
  /\ ticks > 0
  /\ item_at(gs.items, Idx(SnekHead(snek))) = WALL

\* C2: in every state of a session the tick interval is at least a floor and
\* has not wrapped around the unsigned range: whatever the floor, gs.speed is
\* one of 0 .. INIT_SPEED as an unsigned value.
C2_SpeedNeverWraps ==
  pc \in {"playing", "gameover"} => gs.speed >= 0 /\ gs.speed <= INIT_SPEED

\* The poison of the state is over at the clock's reading: the test at the
\* top of the next update succeeds.
Expired == gs.poisoned /\ now - gs.poisoned_time >= POISON_DURATION

\* C3: every update call first restores the tick interval, if the poison is
\* over, to the interval just before the mushroom that began the poisoned
\* period, and clears the poison; a mushroom under the new head then halves
\* the interval and poisons, a snack lowers it by the step; the poison stays
\* while it is not over, and no other step changes interval or poison.
C3_PoisonRestore ==
  [][pc = "playing" =>
       IF ticks' = ticks + 1
         THEN LET base == IF Expired THEN pre_poison ELSE gs.speed
                  tag == item_at(gs.items, Idx(SnekHead(snek')))
              IN /\ gs'.speed = IF tag = MUSHROOM THEN u32_half(base)
                                ELSE IF tag = SNEK_SNACK THEN u32_sub(base, SPEED_STEP)
                                ELSE base
                 /\ gs'.poisoned = (tag = MUSHROOM \/ (gs.poisoned /\ ~Expired))
       ELSE gs'.speed = gs.speed /\ gs'.poisoned = gs.poisoned]_vars

\* The poison of a period with two mushrooms has just been cleared, and the
\* interval is again what it was before the first of them.
C3_Witness ==
  /\ pc = "playing"
  /\ ~gs.poisoned
  /\ gs.score >= 2 * MUSHROOM_SCORE + SNACK_SCORE * eaten
  /\ gs.speed = pre_poison
  /\ pre_poison > 0

\* C3 as stated: on the update call that finds the poison over, the poison is
\* cleared and the tick interval becomes what it was before the first mushroom
\* of the period.
C3_RestoredAfterTick ==
  [][(pc = "playing" /\ ticks' = ticks + 1 /\ Expired) =>
       (~gs'.poisoned /\ gs'.speed = pre_poison)]_vars

\* C4: in a session the snake has the segments snek_init gave it and GROWTH
\* more for every snack eaten, whatever else has happened.
C4_SegmentCount ==
  pc \in {"playing", "gameover"} =>
    Len(snek.segs) = (INIT_SKEN_LEN + 1) + GROWTH * eaten

\* More snacks than the session began with and a mushroom have been eaten,
\* the poison is on, and the session has been paused along the way.
C4_Witness ==
  /\ pc = "playing"
  /\ gs.poisoned
  /\ gs.score > MUSHROOM_SCORE + SNACK_SCORE * (INIT_SNACKS + 1)
  /\ eaten > INIT_SNACKS + 1
  /\ pauses > 0

\* C5: in a session the score changes only in an update call whose new head
\* is on a snack (by SNACK_SCORE) or on a mushroom (by MUSHROOM_SCORE), and
\* the call leaves that cell EMPTY; every other step of the session leaves the
\* score as it is.
C5_ScoreSteps ==
  [][pc = "playing" =>
       LET i == Idx(SnekHead(snek'))
           tag == IF ticks' = ticks + 1 THEN item_at(gs.items, i) ELSE EMPTY
       IN IF tag = SNEK_SNACK
            THEN gs'.score = gs.score + SNACK_SCORE /\ item_at(gs'.items, i) = EMPTY
          ELSE IF tag = MUSHROOM
            THEN gs'.score = gs.score + MUSHROOM_SCORE /\ item_at(gs'.items, i) = EMPTY
          ELSE gs'.score = gs.score]_vars

\* The score holds snacks and a mushroom, and the head's cell is EMPTY.
C5_Witness ==
  /\ pc = "playing"
  /\ eaten > 0
  /\ gs.score = SNACK_SCORE * eaten + MUSHROOM_SCORE
  /\ item_at(gs.items, Idx(SnekHead(snek))) = EMPTY

\* C6: after a game has ended, a step leaves the session's snake, board and
\* score as they are and makes no update call, unless it starts a new session
\* with the state of snek_init and of a new game_state; the program goes on
\* to a new session or to its end only.
C6_GameOverTerminal ==
  [][pc = "gameover" =>
       \/ /\ pc' \in {"gameover", "done"}
          /\ snek' = snek /\ gs' = gs /\ ticks' = ticks /\ sessions' = sessions
       \/ /\ pc' = "playing"
          /\ sessions' = sessions + 1
          /\ ticks' = ticks
          /\ snek' = snek_init
          /\ gs'.score = 0 /\ gs'.speed = INIT_SPEED
          /\ ~gs'.paused /\ ~gs'.poisoned]_vars

\* A second session has begun after a game that set the high score.
C6_Witness ==
  /\ pc = "playing"
  /\ sessions = 2
  /\ high_score > 0
  /\ gs.score = 0
  /\ snek = snek_init

\* C7: a step that enters the paused state, or is taken in it without leaving
\* it, makes no update call and leaves the board and the snake, its segments
\* and its direction, as they are.
C7_PausedFrozen ==
  [][(pc = "playing" /\ gs'.paused) =>
       (ticks' = ticks /\ gs'.items = gs.items /\ snek' = snek)]_vars

\* C8: a call of add_item makes at least one and at most ITEM_ATTEMPTS
\* attempts, and either leaves the board as it is or changes one cell: a cell
\* that was EMPTY, lies in the interior, is not the head's, and now holds the
\* item asked for.
C8_AddItemOneCell ==
  [][pc = "add_item" =>
       LET ch == Changed(gs.items, gs'.items)
       IN /\ item_call'.attempts >= 1 /\ item_call'.attempts <= ITEM_ATTEMPTS
          /\ \/ ch = {}
             \/ \E c \in ch :
                  /\ ch = {c}
                  /\ item_at(gs.items, c) = EMPTY
                  /\ item_at(gs'.items, c) = item_call'.item
                  /\ c # Idx(SnekHead(snek))
                  /\ Interior(Pt(c \div MIN_WIN_WIDTH, c % MIN_WIN_WIDTH))]_vars

\* A call has used all its attempts on a board where every cell its stream
\* can draw, but the head's, holds an item.
C8_Witness ==
  /\ pc = "add_item"
  /\ item_call.called
  /\ item_call.attempts = ITEM_ATTEMPTS
  /\ \A p \in AddItemCells : p # SnekHead(snek) => item_at(gs.items, Idx(p)) # EMPTY

\* C9: none of the three cells a try_to_add_barrier call marks as WALL is the
\* cell of a segment of the snake.
C9_BarrierOffSnek ==
  barrier.placed =>
    \A w \in 1 .. Len(barrier.walls) : barrier.walls[w] \notin SnekCells(snek)

\* update has drawn a barrier over a cell that held an item, and all its
\* cells hold WALL.
C9_Witness ==
  /\ barrier.placed
  /\ gs.score >= WALL_SCORE
  /\ \E w \in 1 .. Len(barrier.walls) : barrier.before[w] # EMPTY
  /\ \A w \in 1 .. Len(barrier.walls) : item_at(gs.items, barrier.walls[w]) = WALL

\* C9 as stated: every cell a try_to_add_barrier call marks as WALL was EMPTY
\* on the board before the call and is not the cell of a segment of the snake.
C9_BarrierOnFreeCells ==
  barrier.placed =>
    \A w \in 1 .. Len(barrier.walls) :
      /\ barrier.before[w] = EMPTY
      /\ barrier.walls[w] \notin SnekCells(snek)

\* C10: try_to_add_barrier is called only at a score of at least WALL_SCORE
\* that is at least WALL_INCREMENT above the last checkpoint, and the call sets
\* the checkpoint to the score; the board of a session with a score below
\* WALL_SCORE holds no WALL.
C10_BarrierPastThreshold ==
  /\ barrier.called =>
       /\ gs.score >= WALL_SCORE
       /\ gs.last_wall_attempt = gs.score
  /\ (pc = "playing" /\ gs.score < WALL_SCORE) =>
       \A c \in DOMAIN gs.items : gs.items[c] # WALL

\* C11: a step that starts a session leaves the score 0, the tick interval
\* INIT_SPEED, the session neither paused nor poisoned, the checkpoint 0 and
\* the snake that of snek_init, and leaves the high score alone; a step that
\* ends a game leaves the high score the greatest final score of the sessions
\* finished, and sets new_high_score exactly when the final score is above
\* the high score it found; no other step changes the high score.
C11_SessionReset ==
  [][/\ sessions' = sessions + 1 =>
          /\ gs'.score = 0 /\ gs'.speed = INIT_SPEED /\ gs'.saved_speed = 0
          /\ ~gs'.paused /\ ~gs'.poisoned /\ gs'.last_wall_attempt = 0
          /\ snek' = snek_init
          /\ high_score' = high_score
     /\ (pc = "playing" /\ pc' = "gameover") =>
          /\ high_score' = best_final'
          /\ \A f \in {gs'.score, best_final} : high_score' >= f
          /\ high_score' \in {gs'.score, best_final}
          /\ new_high' = (gs'.score > high_score)
     /\ ~(pc = "playing" /\ pc' = "gameover") => high_score' = high_score]_vars

\* A second game has ended with the score of the first, which stays the high
\* score without a new_high_score.
C11_Witness ==
  /\ pc = "gameover"
  /\ sessions = 2
  /\ gs.score > 0
  /\ high_score = gs.score
  /\ ~new_high

\* C12: while a session runs, the live allocations are its snake's segments,
\* one struct snek and one item array, however many sessions came before;
\* once the program has ended, nothing is allocated.
C12_StorageReleased ==
  /\ pc = "playing" =>
       heap = [pts |-> Len(snek.segs), sneks |-> 1, items |-> 1]
  /\ pc = "done" => heap = NoHeap

\* The grid distance between two positions.
Manhattan(p, q) ==
  (IF p.row >= q.row THEN p.row - q.row ELSE q.row - p.row)
  + (IF p.col >= q.col THEN p.col - q.col ELSE q.col - p.col)

\* C13: in every state between ticks, any two consecutive segments of the
\* snake are at grid distance exactly 1.
C13_SegmentsAdjacent ==
  \A k \in 1 .. Len(snek.segs) - 1 :
    Manhattan(snek.segs[k], snek.segs[k + 1]) = 1

\* C14: a tick of a snake that faces D, with head (r,c), leaves the new head
\* at (r-1,c) for NORTH, (r+1,c) for SOUTH, (r,c+1) for EAST and (r,c-1) for
\* WEST, the old head second, and every segment but the old tail one place
\* further back at the position it had.
C14_AdvanceDelta ==
  [][Tick =>
       LET h == SnekHead(snek)
           d == snek'.dir
       IN /\ d \in {NORTH, SOUTH, EAST, WEST}
          /\ snek'.segs[1].row = h.row + (IF d = NORTH THEN -1 ELSE IF d = SOUTH THEN 1 ELSE 0)
          /\ snek'.segs[1].col = h.col + (IF d = EAST THEN 1 ELSE IF d = WEST THEN -1 ELSE 0)
          /\ Len(snek'.segs) >= Len(snek.segs)
          /\ \A k \in 1 .. Len(snek.segs) - 1 : snek'.segs[k + 1] = snek.segs[k]]_vars

\* A snake turned north has made a tick: its head is one row up from the
\* starting row, over the old head.
C14_Witness ==
  /\ ticks >= 2
  /\ snek.dir = NORTH
  /\ SnekHead(snek).row = MIN_WIN_HEIGHT \div 2 - 1
  /\ snek.segs[2].row = MIN_WIN_HEIGHT \div 2
  /\ snek.segs[2].col = SnekHead(snek).col

\* The session has no mushroom on its board and is not poisoned.
NoPower(g) ==
  /\ \A c \in DOMAIN g.items : g.items[c] # MUSHROOM
  /\ ~g.poisoned

\* C15: a session with a score of at most MUSHROOM_SCORE_GATE has no mushroom
\* on its board and is not poisoned, and a step stamps a mushroom refresh only
\* with a score above the gate; a tick that does not end the game stamps a
\* snack refresh exactly when SNACK_REFRESH seconds have passed since the
\* last, whatever the score.
C15_MushroomGate ==
  [][/\ gs.score <= MUSHROOM_SCORE_GATE => NoPower(gs)
     /\ gs'.score <= MUSHROOM_SCORE_GATE => NoPower(gs')
     /\ (pc = "playing" /\ gs'.mushrooms_refreshed # gs.mushrooms_refreshed) =>
          gs'.score > MUSHROOM_SCORE_GATE
     /\ (Tick /\ pc' = "playing") =>
          IF now - gs.snacks_refreshed >= SNACK_REFRESH
            THEN gs'.snacks_refreshed = now
          ELSE gs'.snacks_refreshed = gs.snacks_refreshed]_vars

\* Snacks have been replenished in a session that is still at or below the
\* gate after the time of a mushroom refresh has passed.
C15_Witness ==
  /\ pc = "playing"
  /\ gs.score <= MUSHROOM_SCORE_GATE
  /\ gs.score > 0
  /\ now >= MUSHROOM_REFRESH
  /\ gs.snacks_refreshed >= SNACK_REFRESH
  /\ gs.mushrooms_refreshed = 0

\* C16: after every tick the code's snake, grown by three segments on the
\* tail's cell, and the snake whose next three advances per snack keep the
\* tail have the same head, lie on the same cells and give the same answer
\* to the self-collision check; the code's snake has one segment more for
\* each advance still pending.
C16_GrowthEquivalent ==
  snek # NullSnek =>
    /\ SnekHead(snek) = ref.segs[1]
    /\ SnekCells(snek) = {Idx(ref.segs[k]) : k \in 1 .. Len(ref.segs)}
    /\ hits_body(snek) = (\E k \in 2 .. Len(ref.segs) : ref.segs[k] = ref.segs[1])
    /\ Len(snek.segs) = Len(ref.segs) + ref.pending
    /\ \A k \in 1 .. Len(snek.segs) :
         snek.segs[k] = ref.segs[IF k <= Len(ref.segs) THEN k ELSE Len(ref.segs)]

\* After snacks on consecutive ticks, with growth still pending, the snake
\* has turned three times and run into its body.
C16_Witness ==
  /\ pc = "gameover"
  /\ hits_body(snek)
  /\ eaten >= 2
  /\ ref.pending > GROWTH
  /\ turns = LoopTurns

\* C17: a tick that ends the game, by a wall, the body or the edge of the
\* board, makes no barrier attempt, puts no WALL on the board and leaves the
\* checkpoint last_wall_attempt as it was.
C17_NoBarrierAtGameOver ==
  [][(Tick /\ pc' = "gameover") =>
       /\ ~barrier'.called
       /\ gs'.last_wall_attempt = gs.last_wall_attempt
       /\ \A c \in Changed(gs.items, gs'.items) : item_at(gs'.items, c) # WALL]_vars

\* A session that has made a barrier attempt has ended at the edge of the
\* board, with a score past the threshold.
C17_Witness ==
  /\ pc = "gameover"
  /\ ~in_bounds(snek)
  /\ gs.score >= WALL_SCORE
  /\ gs.last_wall_attempt >= WALL_SCORE

\* C18: a tick whose latest direction key, in its own iteration or in a
\* paused iteration since the tick before, turned the snake to the exact
\* opposite of the direction it faced, moves the head onto the second
\* segment and ends the game.
C18_ReversalEndsGame ==
  [][(Tick /\ (\/ snek'.dir = Opposite(snek.dir)
              \/ (snek'.dir = snek.dir /\ reversed))) =>
       /\ SnekHead(snek') = snek.segs[2]
       /\ pc' = "gameover"]_vars

\* C19: the bytes of every frame render builds, on the title screen, in a
\* session and at a game over, fit the buffer of FRAME_CAPACITY bytes.
C19_FrameFits == frame <= FRAME_CAPACITY

\* C20: the head of a running session has at most max(HEIGHT, WIDTH) - 1
\* interior cells ahead of it, and a tick that keeps the direction either
\* ends the game or leaves one cell fewer ahead: with no input the game is
\* over within max(HEIGHT, WIDTH) ticks.
C20_StraightRunEnds ==
  [][/\ pc = "playing" =>
          /\ Interior(SnekHead(snek))
          /\ Reach(snek) + 1 <= (IF MIN_WIN_HEIGHT > MIN_WIN_WIDTH
                                   THEN MIN_WIN_HEIGHT ELSE MIN_WIN_WIDTH)
     /\ (Tick /\ snek'.dir = snek.dir) =>
          \/ pc' = "gameover"
          \/ /\ pc' = "playing"
             /\ Reach(snek') = Reach(snek) - 1]_vars

\* A session that was never steered has ended at the edge of the board, on
\* the tick after its head had no interior cell ahead.
C20_Witness ==
  /\ pc = "gameover"
  /\ turns = 0
  /\ ~in_bounds(snek)
  /\ ticks = (MIN_WIN_WIDTH - 1) - (MIN_WIN_WIDTH \div 2 + 2)

====
